---- MODULE Spec2Model ----
(***************************************************************************)
(* A model of msmbuilder's tICA estimator (decomposition/tica.py) and of   *)
(* the DESRES dataset descriptors (example_datasets/desres_datasets.py).   *)
(*                                                                         *)
(* A data array X of shape (len, w) is the record [w |-> w, rows |-> r],   *)
(* r a tuple of len rows, each a tuple of w integers.  Vectors and         *)
(* matrices are tuples (of tuples) of integers.  Python's None is the      *)
(* value None for a scalar field and the empty tuple for an array field.   *)
(***************************************************************************)
EXTENDS Integers, Sequences, FiniteSets, TLC

VARIABLES m, m2, op, err, arg, exp, hist, ds, fs, nextract, proc

vars == <<m, m2, op, err, arg, exp, hist, ds, fs, nextract, proc>>

dataVars == <<ds, fs, nextract, proc>>

estimatorVars == <<m, m2, exp, hist>>

-----------------------------------------------------------------------------
(* Bounds of the model *)

MaxLen == 3

MaxSeqs == 2

MaxObs == 4

None == 0 - 1

NoArray == << >>

LagTimes == {1, 2}

Widths == {1, 2}

Components == {1, 2}

-----------------------------------------------------------------------------
(* Input data *)

Sample(len, w) ==
    [w |-> w, rows |-> [t \in 1..len |-> [f \in 1..w |-> (t + f) % 2]]]

Pool == {Sample(l, w) : l \in 1..MaxLen, w \in Widths}

RECURSIVE TotalLen(_, _)
TotalLen(S, i) == IF i > Len(S) THEN 0 ELSE Len(S[i].rows) + TotalLen(S, i + 1)

Lists == {S \in UNION {[1..k -> Pool] : k \in 0..MaxSeqs} : TotalLen(S, 1) <= MaxObs}

RECURSIVE SumF(_, _, _)
SumF(f, lo, hi) == IF lo > hi THEN 0 ELSE f[hi] + SumF(f, lo, hi - 1)

-----------------------------------------------------------------------------
(* numpy arithmetic on the accumulators *)

ZeroVec(w) == [i \in 1..w |-> 0]

ZeroMat(w) == [i \in 1..w |-> [j \in 1..w |-> 0]]

\* a += b for 1-D operands: b must have a's length or length 1
AddVec(a, b) ==
    [i \in 1..Len(a) |-> a[i] + b[IF Len(b) = 1 THEN 1 ELSE i]]

\* A += B for square 2-D operands: B must have A's shape or shape (1, 1)
AddMat(A, B) ==
    [i \in 1..Len(A) |-> [j \in 1..Len(A) |->
        A[i][j] + B[IF Len(B) = 1 THEN 1 ELSE i][IF Len(B) = 1 THEN 1 ELSE j]]]

Broadcastable(w, v) == v = w \/ v = 1

\* np.dot(X[a1:b1].T, X[a2:b2]) for two windows of the same length
DotT(X, a1, a2, n) ==
    [i \in 1..X.w |-> [j \in 1..X.w |->
        SumF([t \in 1..n |-> X.rows[a1 + t][i] * X.rows[a2 + t][j]], 1, n)]]

\* X[a:a+n].sum(axis=0)
ColSum(X, a, n) ==
    [i \in 1..X.w |-> SumF([t \in 1..n |-> X.rows[a + t][i]], 1, n)]

-----------------------------------------------------------------------------
(* tICA *)

NoEig == [n |-> None, n_features |-> None]

tICA(n_components, lag_time) ==
    [n_components |-> n_components,
     lag_time |-> lag_time,
     n_features |-> None,
     n_observations_ |-> None,
     n_sequences_ |-> None,
     initialized |-> FALSE,
     outer_0_to_T_lagged |-> NoArray,
     sum_0_to_TminusTau |-> NoArray,
     sum_tau_to_T |-> NoArray,
     sum_0_to_T |-> NoArray,
     outer_0_to_TminusTau |-> NoArray,
     outer_offset_to_T |-> NoArray,
     eig |-> NoEig,
     is_dirty |-> TRUE]

initialize(self, n_features) ==
    IF self.initialized THEN self
    ELSE [self EXCEPT
            !.n_components = IF @ = None THEN n_features ELSE @,
            !.n_features = n_features,
            !.n_observations_ = 0,
            !.n_sequences_ = 0,
            !.outer_0_to_T_lagged = ZeroMat(n_features),
            !.sum_0_to_TminusTau = ZeroVec(n_features),
            !.sum_tau_to_T = ZeroVec(n_features),
            !.sum_0_to_T = ZeroVec(n_features),
            !.outer_0_to_TminusTau = ZeroMat(n_features),
            !.outer_offset_to_T = ZeroMat(n_features),
            !.initialized = TRUE]

\* The result of a call: the object afterwards and the exception raised.
Ret(self, e) == [self |-> self, err |-> e]

\* fit_one with the counts updated before the length test
fit_one_counts_short(self, X) ==
    LET s0 == initialize(self, X.w)
    IN  Ret([s0 EXCEPT !.n_observations_ = @ + Len(X.rows),
                       !.n_sequences_ = @ + 1], "none")

fit_one(self, X) ==
    LET s0 == initialize(self, X.w)
        N == Len(X.rows)
        tau == s0.lag_time
        s1 == [s0 EXCEPT !.n_observations_ = @ + N, !.n_sequences_ = @ + 1]
    IN  IF ~(N > tau) THEN Ret(s0, "none")
        ELSE IF ~Broadcastable(s0.n_features, X.w) THEN Ret(s1, "ValueError: broadcast")
        ELSE Ret([s1 EXCEPT
                    !.outer_0_to_T_lagged = AddMat(@, DotT(X, 0, tau, N - tau)),
                    !.sum_0_to_TminusTau = AddVec(@, ColSum(X, 0, N - tau)),
                    !.sum_tau_to_T = AddVec(@, ColSum(X, tau, N - tau)),
                    !.sum_0_to_T = AddVec(@, ColSum(X, 0, N)),
                    !.outer_0_to_TminusTau = AddMat(@, DotT(X, 0, 0, N - tau)),
                    !.outer_offset_to_T = AddMat(@, DotT(X, tau, tau, N - tau)),
                    !.is_dirty = TRUE], "none")

partial_fit(self, X) == fit_one(self, X)

RECURSIVE fit_loop(_, _, _)
fit_loop(self, sequences, i) ==
    IF i > Len(sequences) THEN Ret(self, "none")
    ELSE LET r == fit_one(self, sequences[i])
         IN  IF r.err # "none" THEN r ELSE fit_loop(r.self, sequences, i + 1)

\* fit that clears the initialized flag before every sequence
RECURSIVE fit_reset_each_loop(_, _, _)
fit_reset_each_loop(self, sequences, i) ==
    IF i > Len(sequences) THEN Ret(self, "none")
    ELSE LET r == fit_one([self EXCEPT !.initialized = FALSE], sequences[i])
         IN  IF r.err # "none" THEN r
             ELSE fit_reset_each_loop(r.self, sequences, i + 1)

fit_reset_each(self, sequences) ==
    LET r == fit_reset_each_loop(self, sequences, 1)
    IN  IF r.err # "none" THEN r
        ELSE IF r.self.n_sequences_ = 0 THEN Ret(r.self, "ValueError: too short")
        ELSE r

fit(self, sequences) ==
    LET r == fit_loop([self EXCEPT !.initialized = FALSE], sequences, 1)
    IN  IF r.err # "none" THEN r
        ELSE IF r.self.n_sequences_ = 0 THEN Ret(r.self, "ValueError: too short")
        ELSE r

\* two_N of means_, offset_correlation_ and covariance_
two_N(self) == 2 * (self.n_observations_ - self.lag_time * self.n_sequences_)

\* two_N^2 * trace(covariance_): covariance_ is the covariance of the two_N
\* windowed samples, so it is zero exactly when the trace is not positive.
TraceCov(self) ==
    LET w == self.n_features
        sq == [i \in 1..w |->
                 two_N(self) * (self.outer_0_to_TminusTau[i][i]
                                + self.outer_offset_to_T[i][i])
                 - (self.sum_0_to_TminusTau[i] + self.sum_tau_to_T[i])
                   * (self.sum_0_to_TminusTau[i] + self.sum_tau_to_T[i])]
    IN  SumF(sq, 1, w)

\* scipy.linalg.eigh(a, b, eigvals=(lo, hi)): the index range must lie in
\* 0..n-1 and b (gamma > 0) must be positive definite.
eigh(self) ==
    IF self.n_features - self.n_components < 0 THEN "ValueError: eigvals"
    ELSE IF ~(TraceCov(self) > 0) THEN "LinAlgError"
    ELSE "none"

\* solve without the early return on a clean cache
solve_always(self) ==
    IF self.n_observations_ = 0 THEN Ret(self, "RuntimeError: must be fit")
    ELSE IF self.n_observations_ = None THEN Ret(self, "TypeError")
    ELSE IF eigh(self) # "none" THEN Ret(self, eigh(self))
    ELSE Ret([self EXCEPT
                !.eig = [n |-> self.n_components,
                         n_features |-> self.n_features],
                !.is_dirty = FALSE], "none")

solve(self) ==
    IF ~self.is_dirty /\ self.eig.n >= self.n_components THEN Ret(self, "none")
    ELSE IF self.n_observations_ = 0 THEN Ret(self, "RuntimeError: must be fit")
    ELSE IF self.n_observations_ = None THEN Ret(self, "TypeError")
    ELSE IF two_N(self) = 0 THEN Ret(self, "RuntimeError: not symmetric")
    ELSE IF eigh(self) # "none" THEN Ret(self, eigh(self))
    ELSE Ret([self EXCEPT
                !.eig = [n |-> self.n_components,
                         n_features |-> self.n_features],
                !.is_dirty = FALSE], "none")

RECURSIVE partial_fit_loop(_, _, _)
partial_fit_loop(self, sequences, i) ==
    IF i > Len(sequences) THEN Ret(self, "none")
    ELSE LET r == partial_fit(self, sequences[i])
         IN  IF r.err # "none" THEN r
             ELSE partial_fit_loop(r.self, sequences, i + 1)

\* score accumulating the sequences into self instead of a new model
score_into_self(self, sequences) ==
    LET r == partial_fit_loop(self, sequences, 1)
    IN  IF ~self.initialized
            THEN [self |-> self, m2 |-> self, err |-> "AssertionError"]
        ELSE [self |-> r.self, m2 |-> r.self, err |-> r.err]

\* The result of score: self and the local model m2 afterwards, and the
\* exception raised ("none": a float, possibly nan, is returned).
score(self, sequences) ==
    LET fresh == tICA(None, self.lag_time)
        s == solve(self)
        r == partial_fit_loop(fresh, sequences, 1)
    IN  IF ~self.initialized
            THEN [self |-> self, m2 |-> fresh, err |-> "AssertionError"]
        ELSE IF s.err # "none"
            THEN [self |-> s.self, m2 |-> fresh, err |-> s.err]
        ELSE IF r.err # "none"
            THEN [self |-> s.self, m2 |-> r.self, err |-> r.err]
        ELSE IF r.self.n_observations_ = None
            THEN [self |-> s.self, m2 |-> r.self, err |-> "TypeError"]
        ELSE IF r.self.n_features # s.self.eig.n_features
            THEN [self |-> s.self, m2 |-> r.self,
                  err |-> "ValueError: shapes not aligned"]
        ELSE [self |-> s.self, m2 |-> r.self, err |-> "none"]

-----------------------------------------------------------------------------
(* The estimator's operations as steps of one instance *)

NComponents == {None} \cup Components

NoHist == [pure |-> FALSE, nlong |-> 0, lenlong |-> 0]

Observed(self) ==
    IF self.n_observations_ = None THEN 0 ELSE self.n_observations_

IsLong(X, lag_time) == Len(X.rows) > lag_time

\* The six accumulators, as a tuple.
Accumulators(self) ==
    <<self.outer_0_to_T_lagged, self.sum_0_to_TminusTau, self.sum_tau_to_T,
      self.sum_0_to_T, self.outer_0_to_TminusTau, self.outer_offset_to_T>>

RECURSIVE LongLen(_, _, _)
LongLen(S, lag_time, i) ==
    IF i > Len(S) THEN 0
    ELSE (IF IsLong(S[i], lag_time) THEN Len(S[i].rows) ELSE 0)
         + LongLen(S, lag_time, i + 1)

RECURSIVE LongCount(_, _, _)
LongCount(S, lag_time, i) ==
    IF i > Len(S) THEN 0
    ELSE (IF IsLong(S[i], lag_time) THEN 1 ELSE 0) + LongCount(S, lag_time, i + 1)

\* What a model that holds the sequences S and nothing else holds: the
\* counts over the sequences of S longer than lag_time, and the accumulators
\* of a newly constructed model that accumulated S.
Alone(S, lag_time) ==
    [n_observations_ |-> LongLen(S, lag_time, 1),
     n_sequences_ |-> LongCount(S, lag_time, 1),
     accumulators |->
         Accumulators(partial_fit_loop(tICA(None, lag_time), S, 1).self)]

Held(self) ==
    [n_observations_ |-> self.n_observations_,
     n_sequences_ |-> self.n_sequences_,
     accumulators |-> Accumulators(self)]

NoExp == [n_observations_ |-> None, n_sequences_ |-> None,
          accumulators |-> NoArray]

NoDataset == [cls |-> "none"]

NoProc == << >>

InitTica ==
    /\ \E nc \in NComponents, lag \in LagTimes :
          /\ m = tICA(nc, lag)
          /\ m2 = tICA(None, lag)
    /\ op = "new"
    /\ err = "none"
    /\ arg = << >>
    /\ exp = NoExp
    /\ hist = [pure |-> TRUE, nlong |-> 0, lenlong |-> 0]

PartialFit(X) ==
    /\ UNCHANGED dataVars
    /\ Observed(m) + Len(X.rows) <= MaxObs
    /\ m' = partial_fit(m, X).self
    /\ err' = partial_fit(m, X).err
    /\ op' = "partial_fit"
    /\ arg' = <<X>>
    /\ exp' = NoExp
    /\ UNCHANGED m2
    /\ hist' = IF hist.pure /\ IsLong(X, m.lag_time)
                  THEN [hist EXCEPT !.nlong = @ + 1,
                                    !.lenlong = @ + Len(X.rows)]
                  ELSE hist

Fit(S) ==
    /\ UNCHANGED dataVars
    /\ m' = fit(m, S).self
    /\ err' = fit(m, S).err
    /\ op' = "fit"
    /\ arg' = << >>
    /\ exp' = Alone(S, m.lag_time)
    /\ UNCHANGED m2
    /\ hist' = NoHist

SetNComponents(k) ==
    /\ UNCHANGED dataVars
    /\ k # m.n_components
    /\ m' = [m EXCEPT !.n_components = k]
    /\ err' = "none"
    /\ op' = "set_n_components"
    /\ arg' = << >>
    /\ exp' = NoExp
    /\ UNCHANGED m2
    /\ hist' = hist

ReadSolved ==
    /\ UNCHANGED dataVars
    /\ m' = solve(m).self
    /\ err' = solve(m).err
    /\ op' = "read"
    /\ arg' = << >>
    /\ exp' = NoExp
    /\ UNCHANGED m2
    /\ hist' = hist

Score(S) ==
    /\ UNCHANGED dataVars
    /\ m' = score(m, S).self
    /\ err' = score(m, S).err
    /\ op' = "score"
    /\ arg' = << >>
    /\ exp' = NoExp
    /\ UNCHANGED m2
    /\ hist' = hist

Init ==
    /\ InitTica
    /\ ds = NoDataset
    /\ fs = {}
    /\ nextract = 0
    /\ proc = NoProc

Next ==
    \/ \E X \in Pool : PartialFit(X)
    \/ \E S \in Lists : Fit(S)
    \/ \E k \in Components : SetNComponents(k)
    \/ ReadSolved
    \/ \E S \in Lists : Score(S)

Spec == Init /\ [][Next]_vars

-----------------------------------------------------------------------------
(* partial_fit(A), partial_fit(B) on one new model beside fit([A, B]) on   *)
(* another new model with the same parameters: m is the first model, m2    *)
(* the second, arg the pair <<A, B>>.                                       *)

InitEq ==
    /\ \E nc \in NComponents, lag \in LagTimes :
          /\ m = tICA(nc, lag)
          /\ m2 = tICA(nc, lag)
    /\ \E A \in Pool, B \in Pool : A.w = B.w /\ arg = <<A, B>>
    /\ op = "new"
    /\ err = "none"
    /\ exp = NoExp
    /\ hist = NoHist
    /\ ds = NoDataset
    /\ fs = {}
    /\ nextract = 0
    /\ proc = NoProc

EqPartialFitA ==
    /\ op = "new"
    /\ m' = partial_fit(m, arg[1]).self
    /\ err' = partial_fit(m, arg[1]).err
    /\ op' = "partial_fit A"
    /\ UNCHANGED <<m2, arg, exp, hist, dataVars>>

EqPartialFitB ==
    /\ op = "partial_fit A"
    /\ m' = partial_fit(m, arg[2]).self
    /\ err' = partial_fit(m, arg[2]).err
    /\ op' = "partial_fit B"
    /\ UNCHANGED <<m2, arg, exp, hist, dataVars>>

EqFit ==
    /\ op = "partial_fit B"
    /\ m2' = fit(m2, arg).self
    /\ err' = fit(m2, arg).err
    /\ op' = "fit [A, B]"
    /\ UNCHANGED <<m, arg, exp, hist, dataVars>>

NextEq == EqPartialFitA \/ EqPartialFitB \/ EqFit

SpecEq == InitEq /\ [][NextEq]_vars

-----------------------------------------------------------------------------
(* DESRES datasets.  A path is a tuple of components; fs is the set of     *)
(* paths that exist; ds is the instance last constructed (cls "none" when  *)
(* the constructor raised); nextract counts the _extract calls of ds.      *)

DefaultStride == 5

Strides == {DefaultStride}

NoPath == << >>

DefaultHome == <<"~/msmbuilder_data">>

DataHomes == {NoPath, <<"D">>}

Classes == {"DESRES2F4K", "DESRESBPTI", "DESRESFIP35_1", "DESRESFIP35_2"}

join(a, b) == Append(a, b)

get_data_home(data_home) ==
    IF data_home = NoPath THEN DefaultHome ELSE data_home

\* "<name>_stride%d" % stride
target_directory(cls, stride) ==
    CASE cls = "DESRES2F4K" -> <<"DESRES_2F4K_stride", stride>>
      [] cls = "DESRESBPTI" -> <<"DESRES_BPTI_stride", stride>>
      [] cls = "DESRESFIP35_1" -> <<"DESRES_FIP35_1_stride", stride>>
      [] cls = "DESRESFIP35_2" -> <<"DESRES_FIP35_2_stride", stride>>

\* _DESRESDataset.__init__ on an object whose _target_directory is set
base_init(cls, target, data_home, stride) ==
    [cls |-> cls,
     data_home |-> get_data_home(data_home),
     data_dir |-> join(get_data_home(data_home), target),
     cached |-> FALSE,
     stride |-> stride,
     system_filename |->
         join(join(get_data_home(data_home), target), "system.pdb"),
     protein_filename |->
         join(join(get_data_home(data_home), target), "protein.pdb")]

\* cls(data_home, stride): the subclass __init__ calls the base __init__
\* with **kwargs alone, so with data_home=None and stride=1, and then sets
\* _stride; DESRESFIP35_2 names DESRESFIP35_1 in super() and raises.
new_dataset(cls, data_home, stride) ==
    IF cls = "DESRESFIP35_2" THEN [self |-> NoDataset, err |-> "TypeError"]
    ELSE [self |-> [base_init(cls, target_directory(cls, stride), NoPath, 1)
                      EXCEPT !.stride = stride],
          err |-> "none"]

\* How far _extract gets: it raises before system.pdb is written, after
\* system.pdb, after protein.pdb, or it writes trajectory0.xtc and returns.
Outcomes == {"fails first", "fails after system", "fails after protein", "ok"}

extract(self, files, outcome) ==
    files
    \cup (IF outcome # "fails first" THEN {self.system_filename} ELSE {})
    \cup (IF outcome \in {"fails after protein", "ok"}
            THEN {self.protein_filename} ELSE {})
    \cup (IF outcome = "ok"
            THEN {join(self.data_dir, "trajectory0.xtc")} ELSE {})

\* cache that does not look whether data_dir exists
cache_always_extracts(self, files, outcome) ==
    LET f1 == files \cup {self.data_home, self.data_dir}
    IN  [self |-> IF outcome = "ok" THEN [self EXCEPT !.cached = TRUE]
                  ELSE self,
         fs |-> extract(self, f1, outcome),
         extracted |-> TRUE,
         err |-> IF outcome = "ok" THEN "none" ELSE "Exception"]

\* The result of cache(): the object and the files afterwards, whether
\* _extract was called, and the exception raised.
cache(self, files, outcome) ==
    LET f1 == files \cup {self.data_home}
    IN  IF self.data_dir \notin f1
            THEN [self |-> IF outcome = "ok"
                             THEN [self EXCEPT !.cached = TRUE] ELSE self,
                  fs |-> extract(self, f1 \cup {self.data_dir}, outcome),
                  extracted |-> TRUE,
                  err |-> IF outcome = "ok" THEN "none" ELSE "Exception"]
        ELSE [self |-> [self EXCEPT !.cached = TRUE], fs |-> f1,
              extracted |-> FALSE, err |-> "none"]

\* get that raises when no trajectory file is in data_dir
get_needs_trajectory(self, files, outcome) ==
    LET c == IF self.cached
                THEN [self |-> self, fs |-> files, extracted |-> FALSE,
                      err |-> "none"]
                ELSE cache(self, files, outcome)
    IN  IF c.err # "none" THEN c
        ELSE IF c.self.protein_filename \notin c.fs
                \/ join(c.self.data_dir, "trajectory0.xtc") \notin c.fs
            THEN [c EXCEPT !.err = "IOError"]
        ELSE c

get(self, files, outcome) ==
    LET c == IF self.cached
                THEN [self |-> self, fs |-> files, extracted |-> FALSE,
                      err |-> "none"]
                ELSE cache(self, files, outcome)
    IN  IF c.err # "none" THEN c
        ELSE IF c.self.protein_filename \notin c.fs
            THEN [c EXCEPT !.err = "IOError"]
        ELSE c

InitData ==
    /\ m = tICA(None, 1)
    /\ m2 = tICA(None, 1)
    /\ exp = NoExp
    /\ hist = NoHist
    /\ op = "new"
    /\ err = "none"
    /\ arg = << >>
    /\ ds = NoDataset
    /\ fs = {}
    /\ nextract = 0
    /\ proc = NoProc

Construct(cls, data_home, stride) ==
    /\ ds' = new_dataset(cls, data_home, stride).self
    /\ err' = new_dataset(cls, data_home, stride).err
    /\ op' = "construct"
    /\ arg' = <<cls, data_home, stride>>
    /\ nextract' = 0
    /\ UNCHANGED <<fs, proc, estimatorVars>>

Cache(outcome) ==
    /\ ds.cls # "none"
    /\ ds' = cache(ds, fs, outcome).self
    /\ fs' = cache(ds, fs, outcome).fs
    /\ err' = cache(ds, fs, outcome).err
    /\ op' = "cache"
    /\ arg' = <<cache(ds, fs, outcome).extracted>>
    /\ nextract' = nextract + (IF cache(ds, fs, outcome).extracted THEN 1 ELSE 0)
    /\ UNCHANGED <<proc, estimatorVars>>

Get(outcome) ==
    /\ ds.cls # "none"
    /\ ds' = get(ds, fs, outcome).self
    /\ fs' = get(ds, fs, outcome).fs
    /\ err' = get(ds, fs, outcome).err
    /\ op' = "get"
    /\ arg' = <<get(ds, fs, outcome).extracted>>
    /\ nextract' = nextract + (IF get(ds, fs, outcome).extracted THEN 1 ELSE 0)
    /\ UNCHANGED <<proc, estimatorVars>>

\* fetch_*(data_home): cls(data_home).get()
Fetch(cls, data_home, outcome) ==
    LET c == new_dataset(cls, data_home, DefaultStride)
        g == get(c.self, fs, outcome)
    IN  /\ op' = "fetch"
        /\ arg' = <<cls, data_home, DefaultStride>>
        /\ UNCHANGED <<proc, estimatorVars>>
        /\ IF c.err # "none"
              THEN /\ ds' = c.self
                   /\ err' = c.err
                   /\ nextract' = 0
                   /\ fs' = fs
              ELSE /\ ds' = g.self
                   /\ err' = g.err
                   /\ nextract' = IF g.extracted THEN 1 ELSE 0
                   /\ fs' = g.fs

NextData ==
    \/ \E cls \in Classes, h \in DataHomes, stride \in Strides :
          Construct(cls, h, stride)
    \/ \E outcome \in Outcomes : Cache(outcome)
    \/ \E outcome \in Outcomes : Get(outcome)
    \/ \E cls \in Classes, h \in DataHomes, outcome \in Outcomes :
          Fetch(cls, h, outcome)

SpecData == InitData /\ [][NextData]_vars

-----------------------------------------------------------------------------
(* Two callers in cache() at once, on instances with the same data_dir.    *)
(* proc[c] is caller c: its instance, the statement it is at, what its     *)
(* exists(data_dir) test saw, whether it entered _extract, and the         *)
(* exception it raised.  Every filesystem call is one step.                *)

Callers == {1, 2}

\* os.makedirs with exist_ok left False: the leaf must not exist
makedirs_exist_ok(files, path) == [fs |-> files \cup {path}, err |-> "none"]

makedirs(files, path) ==
    IF path \in files THEN [fs |-> files, err |-> "OSError"]
    ELSE [fs |-> files \cup {path}, err |-> "none"]

Caller(self) ==
    [self |-> self, pc |-> "exists home", saw |-> "nothing",
     extracted |-> FALSE, err |-> "none"]

InitRace ==
    /\ m = tICA(None, 1)
    /\ m2 = tICA(None, 1)
    /\ exp = NoExp
    /\ hist = NoHist
    /\ op = "new"
    /\ err = "none"
    /\ arg = << >>
    /\ ds = NoDataset
    /\ nextract = 0
    /\ \E cls \in Classes \ {"DESRESFIP35_2"} :
          proc = [c \in Callers |->
                     Caller(new_dataset(cls, NoPath, DefaultStride).self)]
    /\ fs \in {{}, {DefaultHome}}

\* what a step of cache() leaves alone besides proc and fs
raceRest == <<op, err, arg, ds, nextract, estimatorVars>>

Raise(c, e) == [proc EXCEPT ![c].pc = "raised", ![c].err = e]

Goto(c, pc) == [proc EXCEPT ![c].pc = pc]

\* if not exists(self.data_home):
ExistsHome(c) ==
    /\ UNCHANGED raceRest
    /\ proc[c].pc = "exists home"
    /\ proc' = Goto(c, IF proc[c].self.data_home \in fs
                          THEN "exists dir" ELSE "makedirs home")
    /\ UNCHANGED fs

\* makedirs(self.data_home)
MakedirsHome(c) ==
    LET r == makedirs(fs, proc[c].self.data_home)
    IN  /\ UNCHANGED raceRest
        /\ proc[c].pc = "makedirs home"
        /\ fs' = r.fs
        /\ proc' = IF r.err # "none" THEN Raise(c, r.err)
                   ELSE Goto(c, "exists dir")

\* if not exists(self.data_dir):
ExistsDir(c) ==
    /\ UNCHANGED raceRest
    /\ proc[c].pc = "exists dir"
    /\ proc' = IF proc[c].self.data_dir \in fs
                  THEN [proc EXCEPT ![c].pc = "set cached",
                                    ![c].saw = "present"]
                  ELSE [proc EXCEPT ![c].pc = "makedirs dir",
                                    ![c].saw = "absent"]
    /\ UNCHANGED fs

\* makedirs(self.data_dir)
MakedirsDir(c) ==
    LET r == makedirs(fs, proc[c].self.data_dir)
    IN  /\ UNCHANGED raceRest
        /\ proc[c].pc = "makedirs dir"
        /\ fs' = r.fs
        /\ proc' = IF r.err # "none" THEN Raise(c, r.err)
                   ELSE Goto(c, "extract")

\* self._extract(), entered: up to the write of system.pdb
ExtractSystem(c, ok) ==
    /\ UNCHANGED raceRest
    /\ proc[c].pc = "extract"
    /\ fs' = IF ok THEN fs \cup {proc[c].self.system_filename} ELSE fs
    /\ proc' = IF ok THEN [proc EXCEPT ![c].pc = "save protein",
                                       ![c].extracted = TRUE]
               ELSE [proc EXCEPT ![c].pc = "raised",
                                 ![c].extracted = TRUE,
                                 ![c].err = "Exception"]

\* traj0.save(self.protein_filename)
ExtractProtein(c, ok) ==
    /\ UNCHANGED raceRest
    /\ proc[c].pc = "save protein"
    /\ fs' = IF ok THEN fs \cup {proc[c].self.protein_filename} ELSE fs
    /\ proc' = IF ok THEN Goto(c, "save trajectory")
               ELSE Raise(c, "Exception")

\* traj.save(out_filename)
ExtractTrajectory(c, ok) ==
    /\ UNCHANGED raceRest
    /\ proc[c].pc = "save trajectory"
    /\ fs' = IF ok THEN fs \cup {join(proc[c].self.data_dir, "trajectory0.xtc")}
             ELSE fs
    /\ proc' = IF ok THEN Goto(c, "set cached")
               ELSE Raise(c, "Exception")

\* self.cached = True
SetCached(c) ==
    /\ UNCHANGED raceRest
    /\ proc[c].pc = "set cached"
    /\ proc' = [proc EXCEPT ![c].pc = "returned", ![c].self.cached = TRUE]
    /\ UNCHANGED fs

NextRace ==
    \E c \in Callers :
       \/ ExistsHome(c)
       \/ MakedirsHome(c)
       \/ ExistsDir(c)
       \/ MakedirsDir(c)
       \/ \E ok \in BOOLEAN : ExtractSystem(c, ok)
       \/ \E ok \in BOOLEAN : ExtractProtein(c, ok)
       \/ \E ok \in BOOLEAN : ExtractTrajectory(c, ok)
       \/ SetCached(c)

SpecRace == InitRace /\ [][NextRace]_vars

-----------------------------------------------------------------------------
(* Properties of the estimator *)

EigCount(self) == IF self.eig.n = None THEN 0 ELSE self.eig.n

\* n_features, the counts and the sums behind means_, covariance_ and
\* offset_correlation_
Public(self) ==
    <<self.n_features, self.n_observations_, self.n_sequences_,
      self.sum_0_to_TminusTau, self.sum_tau_to_T, self.outer_0_to_TminusTau,
      self.outer_offset_to_T, self.outer_0_to_T_lagged>>

\* C1: once fit(S) has run, the counts are those of the sequences of S
\* longer than lag_time and the accumulators are those S alone gives,
\* whatever the model held before.
C1_FitHoldsOnlyS == (op = "fit") => Held(m) = exp

\* C3: a fit that fails because every sequence was too short leaves
\* n_features, the counts and the accumulated sums as they were.
C3_FailedFitKeepsStatistics ==
    [][(op' = "fit" /\ err' = "ValueError: too short")
          => Public(m') = Public(m)]_vars

\* C4: reading a solve-backed property of a model that has accumulated no
\* observations (and so never solved) raises the RuntimeError.
C4_UnfitReadRaises ==
    (op = "read" /\ m.n_observations_ \in {None, 0} /\ m.eig = NoEig)
        => err = "RuntimeError: must be fit"

\* C5: an initialised model never has n_components above n_features.
C5_ComponentsWithinFeatures ==
    m.initialized => m.n_components <= m.n_features

\* C7: score leaves self's accumulators, counts and n_features alone, and
\* on a model that is not initialised it fails before changing anything.
C7_ScoreLeavesSelf ==
    [][(op' = "score")
          => IF m.initialized
                THEN Held(m') = Held(m) /\ m'.n_features = m.n_features
                ELSE err' = "AssertionError" /\ m' = m]_vars

\* C7 witness: score returned a value on a fitted, solved model.
C7_Witness ==
    op = "score" /\ err = "none" /\ m.n_observations_ > 0 /\ ~m.is_dirty

\* C9 as stated: the number of cached eigenpairs never decreases.
C9_CacheNeverShrinks == [][EigCount(m') >= EigCount(m)]_vars

\* C9 amended: the cache changes only in a re-solve, a re-solve happens
\* only when the statistics are dirty or the cache holds fewer eigenpairs
\* than n_components, it stores exactly n_components eigenpairs, and while
\* the statistics are clean the cached count does not decrease.
C9_Resolve ==
    [][(m'.eig # m.eig \/ (m.is_dirty /\ ~m'.is_dirty))
          => /\ op' \in {"read", "score"}
             /\ m.is_dirty \/ EigCount(m) < m.n_components
             /\ m'.eig.n = m.n_components
             /\ ~m.is_dirty => EigCount(m') > EigCount(m)]_vars

\* C9 witness: a read after n_components was lowered kept the larger cache.
C9_Witness ==
    op = "read" /\ err = "none" /\ ~m.is_dirty /\ m.eig.n > m.n_components

\* C10 as stated: over partial_fit calls on a new model the counts are those
\* of the sequences longer than lag_time, and a sequence that is not longer
\* changes no count, no accumulator and not the dirty flag.
C10_ShortChangesNothing ==
    [][(op' = "partial_fit" /\ hist'.pure)
          => /\ m'.n_sequences_ = hist'.nlong
             /\ m'.n_observations_ = hist'.lenlong
             /\ ~IsLong(arg'[1], m.lag_time)
                  => Held(m') = Held(m) /\ m'.is_dirty = m.is_dirty]_vars

\* C10 amended: the counts are those of the sequences longer than lag_time,
\* and a sequence that is not longer does nothing but initialise a model
\* that was not initialised (counts and accumulators created at zero).
C10_Counts ==
    [][(op' = "partial_fit" /\ hist'.pure)
          => /\ m'.n_sequences_ = hist'.nlong
             /\ m'.n_observations_ = hist'.lenlong
             /\ ~IsLong(arg'[1], m.lag_time)
                  => m' = initialize(m, arg'[1].w)]_vars

\* C10 witness: a too-short sequence arrived after a longer one was counted.
C10_Witness ==
    /\ op = "partial_fit"
    /\ hist.pure
    /\ hist.nlong >= 1
    /\ ~IsLong(arg[1], m.lag_time)

\* C2: all six accumulators, the counts, n_features and the dirty flag are
\* the same after partial_fit(A), partial_fit(B) as after fit([A, B]).
C2_IncrementalIsBatch ==
    (op = "fit [A, B]")
        => /\ Held(m) = Held(m2)
           /\ m.n_features = m2.n_features
           /\ m.is_dirty = m2.is_dirty

\* C2 witness: both paths ended having accumulated two different sequences.
C2_Witness ==
    /\ op = "fit [A, B]"
    /\ m2.n_sequences_ = 2
    /\ arg[1] # arg[2]
    /\ m.n_sequences_ = 2

\* C13: no step changes a count or an accumulator and leaves the dirty flag
\* clear; so while the flag is clear the cached eigenpairs, stored by the
\* solve that cleared it, are those of the statistics the model holds.
C13_ChangeSetsDirty ==
    [][(Held(m') # Held(m)) => m'.is_dirty]_vars

\* _solve called on self gets past its early return and past its 'must be
\* fit' check (None == 0 is false in Python).
PastFitCheck(self) ==
    /\ ~(~self.is_dirty /\ self.eig.n >= self.n_components)
    /\ self.n_observations_ # 0

\* Every counted sequence brought more than lag_time observations.
CountsBound(self) ==
    self.n_sequences_ >= 1
        => self.n_observations_ >= (self.lag_time + 1) * self.n_sequences_

\* C14: once a sequence is counted, n_observations_ is at least
\* (lag_time + 1) * n_sequences_, and whenever a _solve gets past its
\* 'must be fit' check the divisor two_N is a strictly positive number.
C14_PositiveDivisor ==
    [][/\ CountsBound(m')
       /\ ((op' = "read" \/ (op' = "score" /\ m.initialized))
              /\ PastFitCheck(m))
            => (m.n_observations_ # None /\ two_N(m) > 0)]_vars

-----------------------------------------------------------------------------
(* Properties of the datasets *)

\* C6: one instance calls _extract at most once, and only from a cache()
\* that found data_dir absent.
C6_ExtractOnce ==
    [][/\ nextract' <= 1
       /\ nextract' > nextract
            => op' \in {"cache", "get", "fetch"} /\ ds'.data_dir \notin fs]_vars

\* C6 witness: a get() that did not extract, on an instance that extracted.
C6_Witness ==
    op = "get" /\ err = "none" /\ nextract = 1 /\ arg = <<FALSE>> /\ ds.cached

\* C8: constructed or fetched with data_home = D, the descriptor's cache
\* directory is D/<target directory>, and its files are under it.
C8_DataHomeOverride ==
    (op \in {"construct", "fetch"} /\ arg[2] # NoPath)
        => /\ ds.cls = arg[1]
           /\ ds.data_dir = join(arg[2], target_directory(arg[1], arg[3]))
           /\ ds.system_filename = join(ds.data_dir, "system.pdb")
           /\ ds.protein_filename = join(ds.data_dir, "protein.pdb")

\* The cache files _extract writes into data_dir.
CacheFiles(self) ==
    {self.system_filename, self.protein_filename,
     join(self.data_dir, "trajectory0.xtc")}

\* data_dir exists without all of its cache files: an _extract failed in it.
Partial(self, files) ==
    self.data_dir \in files /\ ~(CacheFiles(self) \subseteq files)

\* This step called _extract.
ExtractedNow ==
    IF op' = "fetch" THEN nextract' = 1 ELSE nextract' > nextract

\* This step is a cache(), get() or fetch on an instance whose data_dir
\* was left incomplete by a failed _extract.
OnPartial ==
    /\ op' \in {"cache", "get", "fetch"}
    /\ ds'.cls # "none"
    /\ Partial(ds', fs)

\* A failed _extract leaves cached false and data_dir behind, incomplete.
FailedExtractLeaves ==
    (op' \in {"cache", "get", "fetch"} /\ err' = "Exception")
        => /\ ExtractedNow
           /\ ~ds'.cached
           /\ Partial(ds', fs')

\* C12 as stated: after a failed _extract cached is false; every later
\* cache() or get() on that directory, from the same or a new instance,
\* skips extraction, leaves the directory as it is, sets cached, and get()
\* fails loading the missing files.
C12_GetFailsOnPartial ==
    [][/\ FailedExtractLeaves
       /\ OnPartial
            => /\ ~ExtractedNow
               /\ fs' = fs
               /\ ds'.cached
               /\ op' \in {"get", "fetch"} => err' = "IOError"]_vars

\* C12 amended: as stated, except that get() fails only when protein.pdb
\* is among the missing files; when only the trajectory is missing it
\* returns normally.
C12_GetFailsWithoutProtein ==
    [][/\ FailedExtractLeaves
       /\ OnPartial
            => /\ ~ExtractedNow
               /\ fs' = fs
               /\ ds'.cached
               /\ op' = "cache" => err' = "none"
               /\ op' \in {"get", "fetch"}
                    => err' = IF ds'.protein_filename \in fs
                                 THEN "none" ELSE "IOError"]_vars

\* C12 witness: get() returned normally from a directory in which _extract
\* had written protein.pdb and no trajectory.
C12_Witness ==
    /\ op = "get"
    /\ err = "none"
    /\ nextract = 0
    /\ ds.cached
    /\ Partial(ds, fs)
    /\ ds.protein_filename \in fs

-----------------------------------------------------------------------------
(* Properties of two concurrent cache() calls *)

Ended(c) == proc[c].pc \in {"returned", "raised"}

BothSawAbsent == \A c \in Callers : proc[c].saw = "absent"

\* C11 as stated: in the interleaving where both callers see data_dir
\* absent, both go on to run _extract.
C11_BothExtract ==
    (BothSawAbsent /\ \A c \in Callers : Ended(c))
        => \A c \in Callers : proc[c].extracted

\* C11 amended: both callers may see data_dir absent, but at most one
\* caller ever enters _extract; once both calls have ended after seeing it
\* absent, one has entered _extract and the other raised OSError in
\* makedirs(data_dir) without entering it and without setting cached.
C11_OneExtracts ==
    /\ Cardinality({c \in Callers : proc[c].extracted}) <= 1
    /\ (BothSawAbsent /\ \A c \in Callers : Ended(c))
          => \E c \in Callers, d \in Callers :
                /\ c # d
                /\ proc[c].extracted
                /\ ~proc[d].extracted
                /\ proc[d].pc = "raised"
                /\ proc[d].err = "OSError"
                /\ ~proc[d].self.cached

\* C11 witness: both saw data_dir absent, one extracted everything and
\* returned, the other raised OSError.
C11_Witness ==
    /\ BothSawAbsent
    /\ \E c \in Callers, d \in Callers :
          /\ proc[c].pc = "returned"
          /\ proc[c].extracted
          /\ proc[c].self.cached
          /\ proc[d].pc = "raised"
          /\ proc[d].err = "OSError"

====
